---- MODULE Spec2Model ----
(***************************************************************************)
(* State-machine model of src/server.js: the in-memory WebSocket chat      *)
(* relay (users Map, broadcast, login / private_message / typing handlers, *)
(* close handler).                                                          *)
(*                                                                          *)
(* Node runs every handler to completion, so each handler is one atomic    *)
(* action.  The transport is the `ws` library: a socket is OPEN after the  *)
(* handshake, CLOSING from ws.close() or from the peer going away until    *)
(* its 'close' event is emitted, and CLOSED afterwards.  ws.send() on a    *)
(* socket that is not OPEN drops the frame; 'message' events are still     *)
(* emitted for frames that arrive after the server called ws.close(), as   *)
(* long as the peer has not closed its side.                               *)
(***************************************************************************)
EXTENDS Integers, Sequences, FiniteSets, TLC

VARIABLES
    clients,     \* wss.clients: the connected sockets, in connection order
    readyState,  \* ws.readyState of every socket
    peerGone,    \* the peer has closed its side: no further inbound frames
    username,    \* ws.username, the property the login handler sets
    users,       \* the users Map: entries [key, ws] in insertion order
    event,       \* the handler invocation that produced this state
    sent,        \* the frames that invocation put on the wire, in order
    roster,      \* per OPEN socket, the last user_list its client received
    todo,        \* per client, the frames it has still to send, in order
    inbox,       \* per socket, the frames received and not yet handled
    outbox       \* every frame the server wrote to a socket, in ws.send order

vars == <<clients, readyState, peerGone, username, users, event, sent, roster,
          todo, inbox, outbox>>

----------------------------------------------------------------------------
(* Bounds and value domains *)

MaxSessions == 2

Sessions == 1..MaxSessions

Names == {"user1", "user2"}

Messages == {"hi"}

\* JavaScript undefined: a property that was never set / a missing field.
Undefined == "<undefined>"

\* JSON null, and a field JSON.stringify leaves out.
Null == "<null>"

Absent == "<absent>"

NameArgs == Names \cup {Undefined}

MessageArgs == Messages \cup {Undefined}

----------------------------------------------------------------------------
(* Inbound data: what a client may put on the wire *)

Data(j, t, u, to, m) ==
    [json |-> j, type |-> t, username |-> u, to |-> to, message |-> m]

LoginData == {Data(TRUE, "login", u, Undefined, Undefined) : u \in NameArgs}

PrivateData ==
    {Data(TRUE, "private_message", Undefined, to, m) : to \in NameArgs, m \in MessageArgs}

TypingData == {Data(TRUE, "typing", Undefined, to, Undefined) : to \in NameArgs}

OtherData == {Data(TRUE, "ping", Undefined, Undefined, Undefined)}

GarbageData == {Data(FALSE, Undefined, Undefined, Undefined, Undefined)}

\* A conversation: each of the first two clients logs in under its own name
\* and sends the other one two private messages, "m1" and then "m2".
Texts == <<"m1", "m2">>

OwnName(ws) == IF ws = 1 THEN "user1" ELSE "user2"

PeerName(ws) == IF ws = 1 THEN "user2" ELSE "user1"

Script(ws) ==
    IF ws \in {1, 2}
    THEN << Data(TRUE, "login", OwnName(ws), Undefined, Undefined) >>
             \o [i \in DOMAIN Texts |->
                    Data(TRUE, "private_message", Undefined, PeerName(ws), Texts[i])]
    ELSE << >>

Inbound == LoginData \cup PrivateData \cup TypingData \cup OtherData \cup GarbageData

\* JSON.parse(data) throws on text that is not JSON.
ParseThrows(data) == ~data.json

----------------------------------------------------------------------------
(* JSON.stringify and template literals *)

\* A property whose value is undefined is left out of the object.
JsonField(v) == IF v = Undefined THEN Absent ELSE v

\* An array element that is undefined is written as null.
JsonArray(seq) == [i \in 1..Len(seq) |-> IF seq[i] = Undefined THEN Null ELSE seq[i]]

\* `${v}` in a template literal.
Template(v) == IF v = Undefined THEN "undefined" ELSE v

SystemFrame(text) == [type |-> "system", message |-> text]

TakenFrame == SystemFrame(<<"Username already taken!">>)

WelcomeFrame(name) == SystemFrame(<<"Welcome, ", Template(name), "!">>)

NotAvailableFrame(to) == SystemFrame(<<"User ", Template(to), " not available">>)

UserListFrame(names) == [type |-> "user_list", users |-> JsonArray(names)]

PrivateFrame(from, message) ==
    [type |-> "private_message", from |-> JsonField(from), message |-> JsonField(message)]

DeliveredFrame(to, message) ==
    [type |-> "delivered", to |-> JsonField(to), message |-> JsonField(message)]

TypingFrame(from) == [type |-> "typing", from |-> JsonField(from)]

----------------------------------------------------------------------------
(* The users Map (insertion ordered) *)

MapKeys(m) == [i \in 1..Len(m) |-> m[i].key]

MapHas(m, k) == \E i \in 1..Len(m) : m[i].key = k

\* users.get(k): the socket stored under k, or 0 for undefined.
MapGet(m, k) ==
    IF \E i \in 1..Len(m) : m[i].key = k
    THEN m[CHOOSE i \in 1..Len(m) : m[i].key = k].ws
    ELSE 0

\* users.set(k, ws): an existing key keeps its position, a new key goes last.
MapSet(m, k, ws) ==
    IF \E i \in 1..Len(m) : m[i].key = k
    THEN [i \in 1..Len(m) |-> IF m[i].key = k THEN [key |-> k, ws |-> ws] ELSE m[i]]
    ELSE Append(m, [key |-> k, ws |-> ws])

MapDelete(m, k) == SelectSeq(m, LAMBDA e : e.key # k)

----------------------------------------------------------------------------
(* Sending *)

\* ws.send(JSON.stringify(frame)): reaches the client only if ws is OPEN.
Send(ws, frame) == IF readyState[ws] = "OPEN" THEN << <<ws, frame>> >> ELSE << >>

\* Mutant: broadcast does not look at readyState.
C15_BroadcastToAll(rs, cl, frame) == [i \in 1..Len(cl) |-> <<cl[i], frame>>]

\* Mutant: only the sockets that had logged in before are sent the frame.
C8_BroadcastToNamed(rs, cl, frame) ==
    LET open == SelectSeq(cl, LAMBDA w : rs[w] = "OPEN" /\ username[w] # Undefined)
    IN  [i \in 1..Len(open) |-> <<open[i], frame>>]

\* broadcast(data): every client whose readyState, taken from rs, is OPEN.
Broadcast(rs, cl, frame) ==
    LET open == SelectSeq(cl, LAMBDA w : rs[w] = "OPEN")
    IN  [i \in 1..Len(open) |-> <<open[i], frame>>]

\* Mutant: the roster is read before the handler changed the Map.
C4_StaleUserList(rs, cl, m) == Broadcast(rs, cl, UserListFrame(MapKeys(users)))

UpdateUserList(rs, cl, m) == Broadcast(rs, cl, UserListFrame(MapKeys(m)))

\* A client that has not received any user_list, or that is gone.
NoRoster == [got |-> FALSE, users |-> << >>]

\* The client's onmessage: a user_list frame replaces the roster it shows.
\* Only the clients of sockets that are OPEN in rs are followed.
RosterAfter(rs, out) ==
    [s \in Sessions |->
        LET lists == SelectSeq(out, LAMBDA p : p[1] = s /\ p[2].type = "user_list")
        IN  IF rs[s] # "OPEN" THEN NoRoster
            ELSE IF lists = << >> THEN roster[s]
            ELSE [got |-> TRUE, users |-> lists[Len(lists)][2].users]]

NoData == Data(FALSE, Undefined, Undefined, Undefined, Undefined)

Event(kind, ws, data) == [kind |-> kind, ws |-> ws, data |-> data]

----------------------------------------------------------------------------
(* Initial state: the server is listening, nobody is connected *)

Init ==
    /\ clients = << >>
    /\ readyState = [s \in Sessions |-> "CONNECTING"]
    /\ peerGone = [s \in Sessions |-> FALSE]
    /\ username = [s \in Sessions |-> Undefined]
    /\ users = << >>
    /\ event = Event("listen", 0, NoData)
    /\ sent = << >>
    /\ roster = [s \in Sessions |-> NoRoster]
    /\ todo = [s \in Sessions |-> Script(s)]
    /\ inbox = [s \in Sessions |-> << >>]
    /\ outbox = << >>

----------------------------------------------------------------------------
(* wss.on('connection'): a client completes the handshake.  Sockets are    *)
(* numbered in the order they connect.                                     *)

Connection(ws) ==
    /\ readyState[ws] = "CONNECTING"
    /\ \A w \in 1..(ws - 1) : readyState[w] # "CONNECTING"
    /\ readyState' = [readyState EXCEPT ![ws] = "OPEN"]
    /\ clients' = Append(clients, ws)
    /\ event' = Event("connection", ws, NoData)
    /\ sent' = << >>
    /\ roster' = RosterAfter(readyState', sent')
    /\ UNCHANGED <<peerGone, username, users>>

----------------------------------------------------------------------------
(* ws.on('message') *)

\* Mutant: the refused socket is left open.
C2_NoClose(ws) == readyState

\* ws.close(): starts the closing handshake; a no-op unless ws is OPEN.
WsClose(ws) == [readyState EXCEPT ![ws] = IF @ = "OPEN" THEN "CLOSING" ELSE @]

\* Mutant: a name whose socket is no longer open counts as free.
C19_TakenIfOpen(msg) ==
    \E i \in 1..Len(users) : users[i].key = msg.username /\ readyState[users[i].ws] = "OPEN"

\* Mutant: the login handler does not look the name up.
C1_LoginNeverTaken(msg) == FALSE

\* users.has(msg.username)
LoginTaken(msg) == MapHas(users, msg.username)

\* Mutant: the name is not entered in the Map.
C17_NotRegistered(ws, msg) == users

\* users.set(msg.username, ws)
LoginRegister(ws, msg) == MapSet(users, msg.username, ws)

LoginBranch(ws, msg) ==
    IF LoginTaken(msg)
    THEN /\ sent' = Send(ws, TakenFrame)
         /\ readyState' = WsClose(ws)
         /\ UNCHANGED <<users, username>>
    ELSE LET registered == LoginRegister(ws, msg)
         IN  /\ users' = registered
             /\ username' = [username EXCEPT ![ws] = msg.username]
             /\ sent' = Send(ws, WelcomeFrame(msg.username))
                            \o UpdateUserList(readyState, clients, registered)
             /\ UNCHANGED readyState

\* Mutant: the receiver's readyState is not looked at.
C6_ReceiverRegistered(receiver) == receiver # 0

\* receiver && receiver.readyState === WebSocket.OPEN
ReceiverOpen(receiver) == receiver # 0 /\ readyState[receiver] = "OPEN"

\* Mutant: the acknowledgement names the recipient where the text belongs.
\* Mutant: the acknowledgement is written before the receiver's copy.
C18_AckFirst(ws, msg, receiver) ==
    Send(ws, DeliveredFrame(msg.to, msg.message))
        \o Send(receiver, PrivateFrame(username[ws], msg.message))

C5_AckWithoutText(ws, msg, receiver) ==
    Send(receiver, PrivateFrame(username[ws], msg.message))
        \o Send(ws, DeliveredFrame(msg.to, msg.to))

PrivateDelivery(ws, msg, receiver) ==
    Send(receiver, PrivateFrame(username[ws], msg.message))
        \o Send(ws, DeliveredFrame(msg.to, msg.message))

PrivateUnavailable(ws, msg) == Send(ws, NotAvailableFrame(msg.to))

PrivateMessageBranch(ws, msg) ==
    LET receiver == MapGet(users, msg.to)
    IN  /\ sent' = IF ReceiverOpen(receiver)
                   THEN PrivateDelivery(ws, msg, receiver)
                   ELSE PrivateUnavailable(ws, msg)
        /\ UNCHANGED <<users, username, readyState>>

\* Mutant: a typing frame that cannot be passed on is reported to the sender.
C7_TypingReported(ws, receiver) ==
    IF ReceiverOpen(receiver)
    THEN Send(receiver, TypingFrame(username[ws]))
    ELSE Send(ws, NotAvailableFrame(Undefined))

TypingDelivery(ws, receiver) ==
    IF ReceiverOpen(receiver) THEN Send(receiver, TypingFrame(username[ws])) ELSE << >>

TypingBranch(ws, msg) ==
    LET receiver == MapGet(users, msg.to)
    IN  /\ sent' = TypingDelivery(ws, receiver)
        /\ UNCHANGED <<users, username, readyState>>

\* catch (err): logged; an unknown type falls through every branch.
Dropped ==
    /\ sent' = << >>
    /\ UNCHANGED <<users, username, readyState>>

OnMessage(ws, data) ==
    /\ readyState[ws] \in {"OPEN", "CLOSING"}
    /\ ~peerGone[ws]
    /\ event' = Event("message", ws, data)
    /\ IF ParseThrows(data) THEN Dropped
       ELSE IF data.type = "login" THEN LoginBranch(ws, data)
       ELSE IF data.type = "private_message" THEN PrivateMessageBranch(ws, data)
       ELSE IF data.type = "typing" THEN TypingBranch(ws, data)
       ELSE Dropped
    /\ roster' = RosterAfter(readyState', sent')
    /\ UNCHANGED <<clients, peerGone>>

----------------------------------------------------------------------------
(* The peer goes away: the client closes its side or the socket drops.     *)
(* The socket is CLOSING until its 'close' event is emitted.               *)

PeerClose(ws) ==
    /\ readyState[ws] = "OPEN"
    /\ peerGone' = [peerGone EXCEPT ![ws] = TRUE]
    /\ readyState' = WsClose(ws)
    /\ event' = Event("peer_close", ws, NoData)
    /\ sent' = << >>
    /\ roster' = RosterAfter(readyState', sent')
    /\ UNCHANGED <<clients, username, users>>

----------------------------------------------------------------------------
(* ws.on('close'): emitted once per socket, after it left wss.clients and  *)
(* its readyState became CLOSED.                                           *)

\* Mutant: every close unregisters and broadcasts.
C10_AlwaysUnregister(ws) == TRUE

\* if (ws.username)
HasUsername(ws) == username[ws] # Undefined

\* Mutant: the closed socket's name is left in the Map.
C9_KeepEntry(ws) == users

CloseUnregister(ws) == MapDelete(users, username[ws])

OnClose(ws) ==
    /\ readyState[ws] = "CLOSING"
    /\ readyState' = [readyState EXCEPT ![ws] = "CLOSED"]
    /\ peerGone' = [peerGone EXCEPT ![ws] = TRUE]
    /\ clients' = SelectSeq(clients, LAMBDA w : w # ws)
    /\ event' = Event("close", ws, NoData)
    /\ IF HasUsername(ws)
       THEN /\ users' = CloseUnregister(ws)
            /\ sent' = UpdateUserList(readyState', clients', users')
       ELSE /\ sent' = << >>
            /\ UNCHANGED users
    /\ roster' = RosterAfter(readyState', sent')
    /\ UNCHANGED username

----------------------------------------------------------------------------

\* The handlers under every inbound frame, whatever the clients send; the
\* queues of the conversation are not in play.
NoConversation == UNCHANGED <<todo, inbox, outbox>>

Next ==
    \/ \E ws \in Sessions : Connection(ws) /\ NoConversation
    \/ \E ws \in Sessions, data \in Inbound : OnMessage(ws, data) /\ NoConversation
    \/ \E ws \in Sessions : PeerClose(ws) /\ NoConversation
    \/ \E ws \in Sessions : OnClose(ws) /\ NoConversation

Spec == Init /\ [][Next]_vars

----------------------------------------------------------------------------
(* The conversation of Script: frames queue on each socket in the order the *)
(* client sent them, 'message' events are emitted in that order, and each   *)
(* ws.send appends to the wire in call order.                               *)

\* socket.send(...) in the client: the next frame of its script arrives.
ClientSend(ws) ==
    /\ readyState[ws] \in {"OPEN", "CLOSING"}
    /\ ~peerGone[ws]
    /\ todo[ws] # << >>
    /\ inbox' = [inbox EXCEPT ![ws] = Append(@, Head(todo[ws]))]
    /\ todo' = [todo EXCEPT ![ws] = Tail(@)]
    /\ UNCHANGED <<clients, readyState, peerGone, username, users, event, sent,
                   roster, outbox>>

\* The 'message' event of the oldest frame queued on ws.
Receive(ws) ==
    /\ inbox[ws] # << >>
    /\ OnMessage(ws, Head(inbox[ws]))
    /\ inbox' = [inbox EXCEPT ![ws] = Tail(@)]
    /\ outbox' = outbox \o sent'
    /\ UNCHANGED todo

Connect(ws) == Connection(ws) /\ NoConversation

Leave(ws) == PeerClose(ws) /\ NoConversation

Closed(ws) ==
    /\ OnClose(ws)
    /\ outbox' = outbox \o sent'
    /\ UNCHANGED <<todo, inbox>>

NextOrder ==
    \/ \E ws \in Sessions : Connect(ws)
    \/ \E ws \in Sessions : ClientSend(ws)
    \/ \E ws \in Sessions : Receive(ws)
    \/ \E ws \in Sessions : Leave(ws)
    \/ \E ws \in Sessions : Closed(ws)

SpecOrder == Init /\ [][NextOrder]_vars

----------------------------------------------------------------------------
(* Vocabulary of the properties *)

Open(s) == readyState[s] = "OPEN"

\* Connected and not yet through its 'close' handler.
Live(s) == readyState[s] \in {"OPEN", "CLOSING"}

\* No 'close' event is pending (handlers are atomic: no frame is half-way).
Settled == \A s \in Sessions : readyState[s] # "CLOSING"

RegistryKeys == {users[i].key : i \in DOMAIN users}

\* The socket name x resolves to, when it is registered and OPEN.
Resolves(x, s) == \E i \in DOMAIN users : users[i].key = x /\ users[i].ws = s /\ Open(s)

Available(x) == \E s \in Sessions : Resolves(x, s)

HeldByOpen(x) == x \in Names /\ \E s \in Sessions : Open(s) /\ username[s] = x

\* The frames of `out` that went to socket s, in order.
FramesTo(out, s) == SelectSeq(out, LAMBDA p : p[1] = s)

FramesOfType(out, s, t) == SelectSeq(out, LAMBDA p : p[1] = s /\ p[2].type = t)

Targets(out) == {out[i][1] : i \in DOMAIN out}

\* The step just taken (primed) / the step that led here (unprimed).
HandledNext(ws, type) ==
    /\ event'.kind = "message"
    /\ event'.ws = ws
    /\ event'.data.json
    /\ event'.data.type = type

Handled(type) == event.kind = "message" /\ event.data.json /\ event.data.type = type

----------------------------------------------------------------------------
\* C1 (Uniqueness): at every instant no two distinct live sessions have the
\* same display name, and the registry holds every name at most once.
C1_Uniqueness ==
    /\ \A s, t \in Sessions :
           (s # t /\ Live(s) /\ Live(t) /\ username[s] # Undefined)
               => username[s] # username[t]
    /\ \A i, j \in DOMAIN users : i # j => users[i].key # users[j].key

\* A login with a name that another live session holds has just been handled,
\* and did not give the sender that name.
C1_Witness ==
    /\ Handled("login")
    /\ \E s \in Sessions :
           /\ s # event.ws
           /\ Live(s)
           /\ username[s] = event.data.username
           /\ username[s] \in Names
           /\ username[event.ws] # username[s]

----------------------------------------------------------------------------
\* C2 (NameConflict), as claimed: whenever a login frame carries a name held
\* by an open session, the sender receives exactly the system frame
\* "Username already taken!", its connection is terminated, the registry is
\* not mutated and no user_list is broadcast.
C2_NameConflictAsClaimed ==
    [][\A ws \in Sessions :
           (HandledNext(ws, "login") /\ HeldByOpen(event'.data.username))
               => /\ sent' = << <<ws, TakenFrame>> >>
                  /\ ~Open(ws)'
                  /\ users' = users
                  /\ username' = username]_vars

\* C2 as amended: the connection is terminated, the registry is not mutated
\* and nothing is broadcast; the sender receives exactly the system frame
\* "Username already taken!" if its socket is still open when the frame is
\* handled, and nothing if the server had already started closing it.
C2_NameConflict ==
    [][\A ws \in Sessions :
           (HandledNext(ws, "login") /\ HeldByOpen(event'.data.username))
               => /\ sent' = IF Open(ws) THEN << <<ws, TakenFrame>> >> ELSE << >>
                  /\ ~Open(ws)'
                  /\ users' = users
                  /\ username' = username]_vars

\* A login with a name an open session holds has just been refused: the
\* sender got the system frame and its socket is closing.
C2_Witness ==
    /\ Handled("login")
    /\ HeldByOpen(event.data.username)
    /\ sent = << <<event.ws, TakenFrame>> >>
    /\ readyState[event.ws] = "CLOSING"
    /\ username[event.ws] # event.data.username

----------------------------------------------------------------------------
\* C3 (Registry consistency): in every settled state the names in the
\* registry are exactly the display names of the open, authenticated
\* sessions, the registry has as many entries as there are such sessions,
\* and no entry points to a socket that is not open.
C3_RegistryConsistent ==
    Settled =>
        LET auth == {s \in Sessions : Open(s) /\ username[s] # Undefined}
        IN  /\ RegistryKeys = {username[s] : s \in auth}
            /\ Len(users) = Cardinality(auth)
            /\ \A i \in DOMAIN users : Open(users[i].ws)

----------------------------------------------------------------------------
\* C4 (Roster delivery), as claimed: in every settled state every open
\* session has received a user_list, and the last one it received is the
\* current registry snapshot.
C4_RosterAsClaimed ==
    Settled =>
        \A s \in Sessions :
            Open(s) => /\ roster[s].got
                       /\ roster[s].users = JsonArray(MapKeys(users))

\* C4 as amended: every open session that has received a user_list has, as
\* the last one it received, the current registry snapshot (as JSON writes
\* it); nothing is sent on connection, so a session that connected after
\* the last roster change has received none.
C4_Roster ==
    \A s \in Sessions :
        (Open(s) /\ roster[s].got) => roster[s].users = JsonArray(MapKeys(users))

\* Two open sessions: one holds the current, non-empty roster, the other
\* connected later and has received none.
C4_Witness ==
    \E s, t \in Sessions :
        /\ Open(s) /\ Open(t)
        /\ roster[s].got
        /\ roster[s].users # << >>
        /\ roster[s].users = JsonArray(MapKeys(users))
        /\ ~roster[t].got

----------------------------------------------------------------------------
----------------------------------------------------------------------------
\* C6 (Unavailable recipient), as claimed: a private_message{to: X} where X
\* is not registered or X's socket is not open yields exactly one system
\* frame "User X not available" to the sender, no frame to anyone else, no
\* delivered frame, and leaves the registry unchanged.
C6_UnavailableAsClaimed ==
    [][\A ws \in Sessions :
           (HandledNext(ws, "private_message") /\ ~Available(event'.data.to))
               => /\ sent' = << <<ws, NotAvailableFrame(event'.data.to)>> >>
                  /\ users' = users
                  /\ username' = username]_vars

\* C6 as amended: such a frame yields no frame to any other session, no
\* delivered frame and no registry change; the sender gets exactly one system
\* frame "User X not available" if its socket is still open when the frame
\* is handled, and nothing if the server had already started closing it.
C6_Unavailable ==
    [][\A ws \in Sessions :
           (HandledNext(ws, "private_message") /\ ~Available(event'.data.to))
               => /\ sent' = IF Open(ws)
                             THEN << <<ws, NotAvailableFrame(event'.data.to)>> >>
                             ELSE << >>
                  /\ users' = users
                  /\ username' = username
                  /\ readyState' = readyState]_vars

\* An open sender has just been told that a name is not available which the
\* registry still holds, for a socket that is no longer open.
C6_Witness ==
    /\ Handled("private_message")
    /\ event.data.to \in Names
    /\ event.data.to \in RegistryKeys
    /\ ~Available(event.data.to)
    /\ Open(event.ws)
    /\ sent = << <<event.ws, NotAvailableFrame(event.data.to)>> >>

----------------------------------------------------------------------------
\* C7 (Typing best-effort), as claimed: a typing{to: X} where X is not live
\* produces no frame at all and changes no registry or session state; when
\* X is live exactly one typing{from} frame goes to X and none to the sender.
C7_TypingAsClaimed ==
    [][\A ws \in Sessions :
           HandledNext(ws, "typing")
               => /\ users' = users /\ username' = username /\ readyState' = readyState
                  /\ ~Available(event'.data.to) => sent' = << >>
                  /\ \A r \in Sessions :
                         Resolves(event'.data.to, r)
                             => /\ sent' = << <<r, TypingFrame(username[ws])>> >>
                                /\ FramesTo(sent', ws) = << >>]_vars

\* C7 as amended: as claimed, except that the one typing{from} frame goes to
\* the socket X resolves to, which is the sender itself when the sender
\* names itself; no other frame is sent.
C7_Typing ==
    [][\A ws \in Sessions :
           HandledNext(ws, "typing")
               => /\ users' = users /\ username' = username /\ readyState' = readyState
                  /\ ~Available(event'.data.to) => sent' = << >>
                  /\ \A r \in Sessions :
                         Resolves(event'.data.to, r)
                             => /\ sent' = << <<r, TypingFrame(username[ws])>> >>
                                /\ r # ws => FramesTo(sent', ws) = << >>]_vars

\* A typing frame has just been passed on to another open socket, under the
\* sender's name.
C7_Witness ==
    /\ Handled("typing")
    /\ username[event.ws] \in Names
    /\ \E r \in Sessions :
           /\ r # event.ws
           /\ Resolves(event.data.to, r)
           /\ sent = << <<r, TypingFrame(username[event.ws])>> >>

----------------------------------------------------------------------------
\* C8 (Successful login): when a Connecting session (open, no name yet)
\* sends login with a name the registry does not hold, the session becomes
\* Authenticated under that name, the sender receives system "Welcome,
\* <username>!" first, and then every open socket, the ones still
\* Connecting included, is sent one user_list with the full roster in login
\* order, the new name last.
C8_LoginSucceeds ==
    [][\A ws \in Sessions :
           ( /\ HandledNext(ws, "login")
             /\ Open(ws)
             /\ username[ws] = Undefined
             /\ event'.data.username \in Names
             /\ event'.data.username \notin RegistryKeys )
               => LET name == event'.data.username
                      list == Append(JsonArray(MapKeys(users)), name)
                  IN  /\ username' = [username EXCEPT ![ws] = name]
                      /\ users' = Append(users, [key |-> name, ws |-> ws])
                      /\ readyState' = readyState
                      /\ sent'[1] = <<ws, WelcomeFrame(name)>>
                      /\ Len(sent') = 1 + Cardinality({s \in Sessions : Open(s)})
                      /\ \A s \in Sessions :
                             Open(s) => FramesOfType(sent', s, "user_list")
                                            = << <<s, [type |-> "user_list", users |-> list]>> >>
                      /\ \A s \in Sessions : ~Open(s) => FramesTo(sent', s) = << >>]_vars

\* A login has just succeeded as the second name of the roster, and an open
\* socket that has not logged in was sent the same user_list as the sender.
C8_Witness ==
    /\ Handled("login")
    /\ username[event.ws] = event.data.username
    /\ event.data.username \in Names
    /\ Len(users) = 2
    /\ users[2] = [key |-> event.data.username, ws |-> event.ws]
    /\ sent[1] = <<event.ws, WelcomeFrame(event.data.username)>>
    /\ \E s \in Sessions :
           /\ s # event.ws
           /\ Open(s)
           /\ username[s] = Undefined
           /\ FramesTo(sent, s) = << <<s, UserListFrame(MapKeys(users))>> >>

----------------------------------------------------------------------------
----------------------------------------------------------------------------
\* C10 (Idempotent disconnect): the close of a socket that never got a name
\* leaves the registry unchanged and broadcasts nothing; a socket gets its
\* close event once (ws.close() on a socket that is not open, and anything
\* after the close event, changes nothing about it), and a close event
\* sends at most one user_list to each socket.
C10_IdempotentDisconnect ==
    [][/\ \A ws \in Sessions :
              (event'.kind = "close" /\ event'.ws = ws)
                  => /\ readyState[ws] = "CLOSING"
                     /\ readyState'[ws] = "CLOSED"
                     /\ username[ws] = Undefined => (users' = users /\ sent' = << >>)
                     /\ \A s \in Sessions : Len(FramesTo(sent', s)) <= 1
       /\ \A ws \in Sessions :
              readyState[ws] = "CLOSED"
                  => /\ readyState'[ws] = "CLOSED"
                     /\ event'.ws # ws
       /\ \A ws \in Sessions :
              (HandledNext(ws, "login") /\ ~Open(ws)) => readyState' = readyState]_vars

\* The socket of a session that never got a name has just closed while the
\* registry is not empty and another socket is open: nothing was sent.
C10_Witness ==
    /\ event.kind = "close"
    /\ username[event.ws] = Undefined
    /\ readyState[event.ws] = "CLOSED"
    /\ users # << >>
    /\ sent = << >>
    /\ \E s \in Sessions : Open(s) /\ username[s] \in Names

----------------------------------------------------------------------------
\* Connecting: connected and open, no login accepted yet.
Connecting(s) == Open(s) /\ username[s] = Undefined

\* Authenticated: open, with the name of an accepted login.
Authenticated(s) == Open(s) /\ username[s] # Undefined

\* The handler leaves the registry, the names and the sockets as they were.
NoStateChange == users' = users /\ username' = username /\ readyState' = readyState

----------------------------------------------------------------------------
\* C11 (Unauthenticated senders): a private_message or typing frame from a
\* session that is still Connecting is silently ignored: no frame is sent to
\* anyone, the sender included, and no state changes.
C11_UnauthenticatedIgnored ==
    [][\A ws \in Sessions :
           ( /\ HandledNext(ws, "private_message") \/ HandledNext(ws, "typing")
             /\ Connecting(ws) )
               => (sent' = << >> /\ NoStateChange)]_vars

----------------------------------------------------------------------------
\* C12 (Re-login): a login frame from a session that is already
\* Authenticated is rejected: it adds no registry entry, does not change the
\* session's display name, and never leaves the session under two names.
C12_ReloginRejected ==
    [][\A ws \in Sessions :
           (HandledNext(ws, "login") /\ Authenticated(ws))
               => /\ users' = users
                  /\ username' = username
                  /\ Cardinality({i \in DOMAIN users' : users'[i].ws = ws}) <= 1]_vars

----------------------------------------------------------------------------
\* A frame that is not JSON, or that lacks a field its type requires.
Malformed(data) ==
    \/ ~data.json
    \/ data.type = "login" /\ data.username = Undefined
    \/ data.type = "private_message" /\ (data.to = Undefined \/ data.message = Undefined)
    \/ data.type = "typing" /\ data.to = Undefined

\* C13 (Malformed frames): a frame that is unparseable or lacks a required
\* field, received in any session state, is dropped: no reply is sent to
\* anyone, the connection stays open, and the registry and the session state
\* are unchanged.
C13_MalformedDropped ==
    [][(event'.kind = "message" /\ Malformed(event'.data))
           => (sent' = << >> /\ NoStateChange)]_vars

----------------------------------------------------------------------------
\* C14 (Name release): once the close of an authenticated session's socket
\* has been handled, no registry entry refers to that socket any more, so
\* every name it registered is free for a later login.
C14_NameReleased ==
    \A i \in DOMAIN users :
        ~ /\ users[i].key \in Names
          /\ username[users[i].ws] # Undefined
          /\ readyState[users[i].ws] = "CLOSED"

----------------------------------------------------------------------------
\* The registry holds x for a socket that is no longer open.
Stale(x) == \E i \in DOMAIN users : users[i].key = x /\ ~Open(users[i].ws)

\* C15 (No delivery to closed sessions): no private_message, typing or
\* user_list frame is ever sent to a socket that is not open, also while the
\* registry still holds a stale entry for it; a name whose entry is stale is
\* handled as unavailable, so no delivered frame acknowledges a copy that
\* was not sent.
C15_NoDeliveryToClosed ==
    [][/\ \A i \in DOMAIN sent' :
              sent'[i][2].type \in {"private_message", "typing", "user_list"}
                  => Open(sent'[i][1])
       /\ \A ws \in Sessions :
              (HandledNext(ws, "private_message") /\ Stale(event'.data.to))
                  => /\ FramesOfType(sent', ws, "delivered") = << >>
                     /\ \A s \in Sessions : FramesOfType(sent', s, "private_message") = << >>
       /\ \A ws \in Sessions :
              (HandledNext(ws, "typing") /\ Stale(event'.data.to)) => sent' = << >>]_vars

\* A named socket is closing, its close event still pending and its entry
\* still in the registry, and a roster change has just been broadcast: to
\* the open socket only.
C15_Witness ==
    /\ \E i \in DOMAIN sent : sent[i][2].type = "user_list"
    /\ \A i \in DOMAIN sent : Open(sent[i][1])
    /\ \E s \in Sessions :
           /\ readyState[s] = "CLOSING"
           /\ s # event.ws
           /\ username[s] \in Names
           /\ Stale(username[s])
           /\ s \notin Targets(sent)

----------------------------------------------------------------------------
\* C16 (Login is refused only for live names): a login from a Connecting
\* session with a name whose only registry entry is stale (its socket is no
\* longer open, its close not yet handled) is treated as free and accepted.
C16_StaleNameAccepted ==
    [][\A ws \in Sessions :
           ( /\ HandledNext(ws, "login")
             /\ Connecting(ws)
             /\ event'.data.username \in Names
             /\ Stale(event'.data.username) )
               => /\ username'[ws] = event'.data.username
                  /\ Open(ws)'
                  /\ \E i \in DOMAIN users' :
                         users'[i] = [key |-> event'.data.username, ws |-> ws]]_vars

----------------------------------------------------------------------------
\* C17 (Concurrent registration): when two Connecting sessions send login
\* with the same free name, whichever frame is handled first succeeds and
\* the one handled next is refused with NameConflict: never both succeed,
\* never both fail.
C17_ConcurrentRegistration ==
    [][\A s, t \in Sessions : \A n \in Names :
           (s # t /\ HandledNext(t, "login") /\ event'.data.username = n)
               => /\ (Connecting(s) /\ Connecting(t) /\ n \notin RegistryKeys)
                         => /\ username'[t] = n
                            /\ users' = Append(users, [key |-> n, ws |-> t])
                            /\ Open(t)'
                  /\ ( /\ Handled("login") /\ event.ws = s /\ event.data.username = n
                       /\ Authenticated(s) /\ username[s] = n
                       /\ Connecting(t) )
                         => /\ username'[t] = Undefined
                            /\ users' = users
                            /\ sent' = << <<t, TakenFrame>> >>
                            /\ ~Open(t)']_vars

\* Two logins with the same name from two Connecting sockets have been
\* handled one after the other: the first holds the name, the second has
\* just been refused.
C17_Witness ==
    /\ Handled("login")
    /\ event.data.username \in Names
    /\ users = << [key |-> event.data.username, ws |-> 3 - event.ws] >>
    /\ event.ws \in {1, 2}
    /\ Authenticated(3 - event.ws)
    /\ username[event.ws] = Undefined
    /\ readyState[event.ws] = "CLOSING"
    /\ sent = << <<event.ws, TakenFrame>> >>
    /\ roster[3 - event.ws] = [got |-> TRUE, users |-> << event.data.username >>]

----------------------------------------------------------------------------
\* C19 (Error isolation): handling a frame of session S closes no socket but
\* S's own, and that only for a login refused with NameConflict; it changes
\* neither the display name nor a registry entry of any other session.
C19_ErrorIsolation ==
    [][\A ws \in Sessions :
           (event'.kind = "message" /\ event'.ws = ws)
               => /\ \A t \in Sessions \ {ws} :
                         readyState'[t] = readyState[t] /\ username'[t] = username[t]
                  /\ \A i \in DOMAIN users : i \in DOMAIN users' /\ users'[i] = users[i]
                  /\ \A i \in DOMAIN users' \ DOMAIN users : users'[i].ws = ws
                  /\ readyState'[ws] # readyState[ws]
                         => /\ event'.data.json
                            /\ event'.data.type = "login"
                            /\ event'.data.username \in RegistryKeys
                            /\ readyState[ws] = "OPEN"
                            /\ readyState'[ws] = "CLOSING"]_vars

\* An authenticated session has just been refused another session's name:
\* it is closing, and both sessions keep their names and registry entries.
C19_Witness ==
    /\ Handled("login")
    /\ readyState[event.ws] = "CLOSING"
    /\ username[event.ws] \in Names
    /\ \E t \in Sessions :
           /\ t # event.ws
           /\ Authenticated(t)
           /\ username[t] = event.data.username
           /\ \E i, j \in DOMAIN users :
                  /\ users[i] = [key |-> username[t], ws |-> t]
                  /\ users[j] = [key |-> username[event.ws], ws |-> event.ws]

----------------------------------------------------------------------------
\* C20 (Sender identity integrity): every private_message or typing frame
\* that is delivered carries, as from, a display name the registry maps to
\* the sending session when the frame is routed.
C20_SenderIdentity ==
    [][\A ws \in Sessions :
           (event'.kind = "message" /\ event'.ws = ws)
               => \A i \in DOMAIN sent' :
                      sent'[i][2].type \in {"private_message", "typing"}
                          => /\ sent'[i][2].from \in Names
                             /\ \E k \in DOMAIN users :
                                    users[k] = [key |-> sent'[i][2].from, ws |-> ws]]_vars

----------------------------------------------------------------------------
\* The texts, in wire order, of the frames of type t written to socket s
\* whose field f (from or to) is x.
TextsOn(s, t, f, x) ==
    LET hits == SelectSeq(outbox, LAMBDA e :
                    e[1] = s /\ e[2].type = t /\ e[2][f] = x)
    IN  [i \in DOMAIN hits |-> hits[i][2].message]

\* The texts of q are in the order the script sends them, none twice.
InScriptOrder(q) ==
    \A i, j \in DOMAIN q :
        i < j => \E a, b \in DOMAIN Texts : a < b /\ q[i] = Texts[a] /\ q[j] = Texts[b]

\* The frames of s handled so far are the first frames s received.
HandledInOrder(s) ==
    \E n \in 0..Len(Script(s)) :
        /\ n + Len(inbox[s]) + Len(todo[s]) = Len(Script(s))
        /\ inbox[s] = SubSeq(Script(s), n + 1, n + Len(inbox[s]))
        /\ todo[s] = SubSeq(Script(s), n + Len(inbox[s]) + 1, Len(Script(s)))

\* C18 (Ordering): the inbound frames of a session are handled in the order
\* received; the copies a recipient is written from one sender, and the
\* delivered acknowledgements a sender is written for one recipient, are in
\* the order the sender sent the messages (m1 before m2); and every delivered
\* frame on the wire comes directly after the recipient's copy of its message.
C18_Ordering ==
    /\ \A s \in Sessions : HandledInOrder(s)
    /\ \A s \in Sessions, x \in Names :
           /\ InScriptOrder(TextsOn(s, "private_message", "from", x))
           /\ InScriptOrder(TextsOn(s, "delivered", "to", x))
    /\ \A j \in DOMAIN outbox :
           outbox[j][2].type = "delivered"
               => /\ j > 1
                  /\ outbox[j - 1][2].type = "private_message"
                  /\ outbox[j - 1][2].message = outbox[j][2].message
                  /\ outbox[j - 1][1] # outbox[j][1]

\* Client 1 has sent m1 and m2 to user2, held by open socket 2; both copies
\* and both acknowledgements are on the wire.
C18_Witness ==
    /\ TextsOn(2, "private_message", "from", "user1") = Texts
    /\ TextsOn(1, "delivered", "to", "user2") = Texts
    /\ Open(1) /\ Open(2)

====
